---- MODULE Spec2Model ----
(***************************************************************************)
(* Model of the VlogFlow frame-sampling / AI-result reconciliation         *)
(* pipeline:                                                               *)
(*   src/unnamed/part_000            extractFramesFromVideo (frame sampler)*)
(*   src/services/geminiService.ts   analyzeVideoFrames (call + reconcile) *)
(*   src/App.tsx                     App / processProject / DetailOverlay  *)
(*                                                                         *)
(* Time.  The sampler computes interval = max(0.5, duration / target) in   *)
(* seconds.  To keep every time an exact integer the model counts time in  *)
(* ticks of 1/(2*target) seconds (half-seconds when target = 0): 0.5 s is  *)
(* `target` ticks and duration/target seconds is duration/target ticks,    *)
(* which is exact for the durations the model draws (see Durations).       *)
(***************************************************************************)
EXTENDS Integers, Sequences, FiniteSets, TLC

(* ------------------------------ bounds --------------------------------- *)

\* processProject passes 120 (App.tsx:56); the model runs the same code with
\* a small target so that the count limit is reached.
TargetFrameCount == 2

\* Length of the non-empty videos of the project collection, in ticks.
MaxDuration == 3

\* Projects ever uploaded in one run.
MaxProjects == 2

\* Timeline events in one model response of the project collection.
MaxTimeline == 2

\* User edit events (rename, overlay field edits) in one run.
MaxEdits == 1

\* Stand-alone sampler runs: largest targetFrameCount and duration (ticks).
MaxTarget == 3
MaxSamplerDuration == 9

\* Stand-alone reconciler runs: frames and raw events of one call.
MaxCallFrames == 3
MaxCallTimeline == 2

(* ------------------------------ helpers -------------------------------- *)

Min(a, b) == IF a <= b THEN a ELSE b
Max(a, b) == IF a >= b THEN a ELSE b

\* JavaScript object spread {...a, ...b}: the keys of both, b's values win.
Merge(a, b) ==
  [k \in (DOMAIN a) \cup (DOMAIN b) |-> IF k \in DOMAIN b THEN b[k] ELSE a[k]]

\* JavaScript null (Project.result before analysis).
Null == [null |-> TRUE]

\* Sequences over S of length at most n.
SeqUpTo(S, n) == UNION {[1..k -> S] : k \in 0..n}

(* --------------------- extractFramesFromVideo -------------------------- *)

\* Ticks in half a second for a sampler run with the given target count.
TicksPerHalfSecond(target) == IF target = 0 THEN 1 ELSE target

\* Math.max(0.5, x / 0) is Infinity or NaN: a value that is no finite time.
NonFinite == -1

\* `let interval = 1` (seconds), in ticks.
DefaultInterval(target) == 2 * TicksPerHalfSecond(target)

\* Variant: the interval floored at the 1 s default instead of 0.5 s.
IntervalOfOneSecondFloor(duration, target) ==
  IF target = 0 THEN NonFinite
  ELSE Max(DefaultInterval(target), duration \div target)

\* interval = Math.max(0.5, video.duration / targetFrameCount), in ticks.
IntervalOf(duration, target) ==
  IF target = 0 THEN NonFinite
  ELSE Max(TicksPerHalfSecond(target), duration \div target)

\* Durations (ticks) for which duration / target is an exact number of ticks
\* whenever it exceeds the 0.5 s floor.
Durations(target, maxDuration) ==
  {d \in 0..maxDuration : target = 0 \/ d <= target * target \/ d % target = 0}

\* Assigning video.currentTime: the media element clamps a position past the
\* end of the media to its duration.
SeekTo(t, duration) == IF t = NonFinite \/ t > duration THEN duration ELSE t

\* The synchronous body of the Promise executor: elements and object URL
\* created, then either rejected for want of a 2d context or the video source
\* set and the listeners attached.  encodeFailed records whether toBlob has
\* handed a null blob to its callback during the run.
NewSampler(duration, target, hasContext) ==
  [ duration         |-> duration,
    targetFrameCount |-> target,
    frames           |-> << >>,
    interval         |-> DefaultInterval(target),
    currentTime      |-> 0,
    created          |-> 1,
    revoked          |-> 0,
    encodeFailed     |-> FALSE,
    phase            |-> IF hasContext THEN "loading" ELSE "dead",
    settled          |-> IF hasContext THEN "pending" ELSE "rejected",
    reason           |-> IF hasContext THEN "" ELSE "cannot create canvas context" ]

\* resolve / reject of a Promise settle it once; later calls are ignored.
Settle(s, how, why) ==
  IF s.settled = "pending" THEN [s EXCEPT !.settled = how, !.reason = why] ELSE s

\* 'loadedmetadata' listener.
OnLoadedMetadata(s) ==
  [s EXCEPT !.interval    = IntervalOf(s.duration, s.targetFrameCount),
            !.currentTime = SeekTo(0, s.duration),
            !.phase       = "seeking"]

\* Variant: the exit test without the currentTime >= duration disjunct.
CaptureDoneCountOnly(s) == Len(s.frames) >= s.targetFrameCount

\* The loop's exit test at the head of captureFrame.
CaptureDone(s) ==
  s.currentTime >= s.duration \/ Len(s.frames) >= s.targetFrameCount

\* 'seeked' listener: captureFrame up to the toBlob call.
CaptureFrame(s) ==
  IF CaptureDone(s)
  THEN Settle([s EXCEPT !.revoked = @ + 1, !.phase = "idle"], "resolved", "")
  ELSE [s EXCEPT !.phase = "encoding"]

\* video.currentTime + interval.
AddTime(t, interval) == IF interval = NonFinite THEN NonFinite ELSE t + interval

\* Variant: after a null blob the callback seeks to the position it is at,
\* to try the same frame again.
OnBlobRetriesNullBlob(s, hasBlob) ==
  [s EXCEPT !.frames      = IF hasBlob
                            THEN Append(@, [timeOffset |-> s.currentTime])
                            ELSE @,
            !.encodeFailed = @ \/ ~hasBlob,
            !.currentTime = IF hasBlob
                            THEN SeekTo(AddTime(s.currentTime, s.interval), s.duration)
                            ELSE SeekTo(s.currentTime, s.duration),
            !.phase       = "seeking"]

\* canvas.toBlob callback: push the frame when a blob was produced, then seek.
OnBlob(s, hasBlob) ==
  [s EXCEPT !.frames      = IF hasBlob
                            THEN Append(@, [timeOffset |-> s.currentTime])
                            ELSE @,
            !.encodeFailed = @ \/ ~hasBlob,
            !.currentTime = SeekTo(AddTime(s.currentTime, s.interval), s.duration),
            !.phase       = "seeking"]

\* A whole run in which every event arrives and every encode succeeds: the
\* listeners applied in the order the media element fires them, up to the
\* settling of the promise.
RECURSIVE RunToEnd(_)
RunToEnd(s) ==
  IF s.settled # "pending" THEN s
  ELSE IF s.phase = "loading" THEN RunToEnd(OnLoadedMetadata(s))
  ELSE IF s.phase = "seeking" THEN RunToEnd(CaptureFrame(s))
  ELSE RunToEnd(OnBlob(s, TRUE))

\* 'error' listener.
OnVideoError(s) ==
  Settle([s EXCEPT !.phase = "dead"], "rejected", "video failed to load")

(* ------------------------- analyzeVideoFrames -------------------------- *)

\* Error messages (the source's are Chinese; the model names them in ASCII).
MsgNoApiKey    == "API key not found in environment"
MsgNoResult    == "AI returned no result"
MsgSyntaxError == "SyntaxError: unexpected token in JSON"
MsgNullResult  == "TypeError: cannot read properties of null (reading 'timeline')"
MsgNoTimeline  == "TypeError: cannot read properties of undefined (reading 'map')"
MsgNoFrame     == "TypeError: cannot read properties of undefined (reading 'timeOffset')"
MsgFallback    == "processing failed"

\* response.text values: missing or empty, not JSON, or the JSON text of v.
NoText      == [length |-> 0]
Garbled     == [length |-> 1, parses |-> FALSE]
JsonText(v) == [length |-> 1, parses |-> TRUE, value |-> v]

Fulfilled(v) == [state |-> "fulfilled", value |-> v]
Rejected(m)  == [state |-> "rejected", message |-> m]

\* Variant: the clamp without its Math.max(0, ...) floor.
SafeIndexNoFloor(index, frames) == Min(index, Len(frames) - 1)

\* Math.min(Math.max(0, item.bestFrameIndex), frames.length - 1)
SafeIndex(index, frames) == Min(Max(0, index), Len(frames) - 1)

\* frames[safeIndex] is an element of the array (0-based position).
HasFrame(frames, i) == i >= 0 /\ i < Len(frames)

\* The map callback throws a TypeError when bestFrameIndex is missing (NaN
\* index) or when frames[safeIndex] is undefined.
ItemThrows(item, frames) ==
  \/ "bestFrameIndex" \notin DOMAIN item
  \/ ~HasFrame(frames, SafeIndex(item.bestFrameIndex, frames))

\* Variant: the map callback without `bestFrameIndex: safeIndex`.
ProcessItemKeepsIndex(item, frames) ==
  LET safeIndex == SafeIndex(item.bestFrameIndex, frames)
      realTime  == frames[safeIndex + 1].timeOffset
  IN  Merge(item, [timeOffset |-> realTime])

\* Variant: the map callback storing the 1-based position of the frame.
ProcessItemOneBased(item, frames) ==
  LET safeIndex == SafeIndex(item.bestFrameIndex, frames)
      realTime  == frames[safeIndex + 1].timeOffset
  IN  Merge(item, [bestFrameIndex |-> safeIndex + 1, timeOffset |-> realTime])

\* The map callback's return value.
ProcessItem(item, frames) ==
  LET safeIndex == SafeIndex(item.bestFrameIndex, frames)
      realTime  == frames[safeIndex + 1].timeOffset
  IN  Merge(item, [bestFrameIndex |-> safeIndex, timeOffset |-> realTime])

\* Variant: the mapped events re-sorted by their resolved timeOffset.
ProcessTimelineSorted(timeline, frames) ==
  SortSeq([k \in DOMAIN timeline |-> ProcessItem(timeline[k], frames)],
          LAMBDA a, b : a.timeOffset < b.timeOffset)

\* result.timeline.map(...)
ProcessTimeline(timeline, frames) ==
  [k \in DOMAIN timeline |-> ProcessItem(timeline[k], frames)]

\* Variant: events whose frame cannot be resolved are dropped from the
\* timeline instead of failing the call.
ReconcileSkipsBadItems(frames, response) ==
  IF response.kind = "rejects" THEN Rejected(response.message)
  ELSE LET text == response.text IN
    IF text.length = 0 THEN Rejected(MsgNoResult)
    ELSE IF ~text.parses THEN Rejected(MsgSyntaxError)
    ELSE LET result == text.value IN
      IF result = Null THEN Rejected(MsgNullResult)
      ELSE IF "timeline" \notin DOMAIN result THEN Rejected(MsgNoTimeline)
      ELSE Fulfilled(Merge(result,
             [timeline |-> ProcessTimeline(
                             SelectSeq(result.timeline, LAMBDA item : ~ItemThrows(item, frames)),
                             frames)]))

\* The part of analyzeVideoFrames after `await generateContent`: the promise
\* it settles with, given what the call produced.
Reconcile(frames, response) ==
  IF response.kind = "rejects" THEN Rejected(response.message)
  ELSE LET text == response.text IN
    IF text.length = 0 THEN Rejected(MsgNoResult)
    ELSE IF ~text.parses THEN Rejected(MsgSyntaxError)
    ELSE LET result == text.value IN
      IF result = Null THEN Rejected(MsgNullResult)
      ELSE IF "timeline" \notin DOMAIN result THEN Rejected(MsgNoTimeline)
      ELSE IF \E k \in DOMAIN result.timeline : ItemThrows(result.timeline[k], frames)
        THEN Rejected(MsgNoFrame)
      ELSE Fulfilled(Merge(result,
                           [timeline |-> ProcessTimeline(result.timeline, frames)]))

\* analyzeVideoFrames as a whole: getClient() throws without an API key,
\* before any request is made.
AnalyzeVideoFrames(frames, hasApiKey, response) ==
  IF ~hasApiKey THEN Rejected(MsgNoApiKey) ELSE Reconcile(frames, response)

(* ------------------------ inputs of the model -------------------------- *)

\* Raw timeline events as the external model may return them: every field,
\* the optional location and foodItems left out, or (against the schema) no
\* bestFrameIndex; the index itself is unconstrained.
FullItem(i) ==
  [ timestamp |-> "00:07", content |-> "noodle stall", location |-> "shop",
    foodItems |-> <<"tea">>, bestFrameIndex |-> i, highlightType |-> "food" ]
BareItem(i) ==
  [ timestamp |-> "00:09", content |-> "street", bestFrameIndex |-> i,
    highlightType |-> "scenery" ]
NoIndexItem ==
  [ timestamp |-> "00:11", content |-> "bus", highlightType |-> "transport" ]

\* Indices the external model may name against n frames: below, in and above
\* the valid range.
RawIndices(n) == (-1)..(n + 1)

RawResult(timeline) ==
  [ title |-> "Trip", summary |-> "A day out", vibe |-> <<"#food">>,
    timeline |-> timeline ]

\* What generateContent may produce, the timelines being drawn from `items`:
\* a failure (with or without a message), no text, text that is not JSON, the
\* JSON text `null`, or the JSON text of a result.
Responses(items, maxTimeline) ==
  {[kind |-> "rejects", message |-> m] : m \in {"", "network error"}}
  \cup {[kind |-> "responds", text |-> t] : t \in {NoText, Garbled, JsonText(Null)}}
  \cup {[kind |-> "responds", text |-> JsonText(RawResult(tl))] :
          tl \in SeqUpTo(items, maxTimeline)}

\* Events of the project collection's responses against n frames.
ProjectItems(n) == {FullItem(i) : i \in RawIndices(n)} \cup {NoIndexItem}

\* Responses of the project collection, by the number of frames sent.
ProjectResponses ==
  [n \in 0..TargetFrameCount |-> Responses(ProjectItems(n), MaxTimeline)]

\* Events of a stand-alone call against n frames.
CallItems(n) ==
  {FullItem(i) : i \in RawIndices(n)} \cup {BareItem(i) : i \in RawIndices(n)}
  \cup {NoIndexItem}

\* Values the user may type into a field of the overlay or the rename box.
EditedText == "edited"

(* ------------------------------- state --------------------------------- *)

VARIABLES
  projects,            \* App state `projects`: the list of Project records
  selectedProjectId,   \* App state `selectedProjectId` (NoSelection for null)
  overlay,             \* DetailOverlay state: editedResult, isEditing
  task,                \* per project id: the processProject activation
  sampler,             \* per project id: the extractFramesFromVideo run
  written,             \* status writes applied by the last step: [id, from, to]
  edits,               \* user edit events so far
  apiKey,              \* whether process.env.API_KEY is set
  call                 \* a stand-alone analyzeVideoFrames call

vars ==
  <<projects, selectedProjectId, overlay, task, sampler, written, edits, apiKey, call>>

\* selectedProjectId = null
NoSelection == 0

\* No DetailOverlay is mounted.
NoOverlay == [mounted |-> FALSE]

\* No stand-alone call is being made.
NoCall == [stage |-> "none"]

(* ------------------------ the project collection ----------------------- *)

\* A new Project as handleFileChange builds it.
NewProject(id, file) ==
  [ id |-> id, file |-> file, status |-> "idle", frames |-> << >>, result |-> Null ]

\* projects.find(p => p.id === id) exists
HasProject(ps, id) == \E i \in DOMAIN ps : ps[i].id = id

ProjectOf(ps, id) == ps[CHOOSE i \in DOMAIN ps : ps[i].id = id]

\* setProjects(prev => prev.map(p => p.id === id ? { ...p, status } : p))
UpdateProjectStatus(ps, id, status) ==
  [i \in DOMAIN ps |-> IF ps[i].id = id THEN Merge(ps[i], [status |-> status]) ELSE ps[i]]

\* Variant: updateProject without the p.id === id test.
UpdateProjectAll(ps, id, updates) == [i \in DOMAIN ps |-> Merge(ps[i], updates)]

\* Variant: updateProject that inserts a record when no project has the id.
UpdateProjectUpsert(ps, id, updates) ==
  IF \E i \in DOMAIN ps : ps[i].id = id
  THEN [i \in DOMAIN ps |-> IF ps[i].id = id THEN Merge(ps[i], updates) ELSE ps[i]]
  ELSE Append(ps, Merge([id |-> id], updates))

\* setProjects(prev => prev.map(p => p.id === id ? { ...p, ...updates } : p))
UpdateProject(ps, id, updates) ==
  [i \in DOMAIN ps |-> IF ps[i].id = id THEN Merge(ps[i], updates) ELSE ps[i]]

\* setProjects(prev => prev.filter(p => p.id !== id))
RemoveProject(ps, id) == SelectSeq(ps, LAMBDA p : p.id # id)

\* One call of updateProjectStatus or updateProject.
StatusWrite(id, status) ==
  [fn |-> "updateProjectStatus", id |-> id, updates |-> [status |-> status]]
Write(id, updates) == [fn |-> "updateProject", id |-> id, updates |-> updates]

ApplyWrite(ps, w) ==
  IF w.fn = "updateProjectStatus"
  THEN UpdateProjectStatus(ps, w.id, w.updates.status)
  ELSE UpdateProject(ps, w.id, w.updates)

\* The queued state updaters applied in order.
RECURSIVE ApplyWrites(_, _)
ApplyWrites(ps, ws) ==
  IF ws = << >> THEN ps ELSE ApplyWrites(ApplyWrite(ps, Head(ws)), Tail(ws))

\* The status writes those updaters make, in order: the status found and the
\* status written ("absent" when no project has the id and nothing changes).
RECURSIVE StatusChanges(_, _)
StatusChanges(ps, ws) ==
  IF ws = << >> THEN << >>
  ELSE LET w == Head(ws) IN
       (IF "status" \in DOMAIN w.updates
        THEN << [ id   |-> w.id,
                  from |-> IF HasProject(ps, w.id) THEN ProjectOf(ps, w.id).status
                                                   ELSE "absent",
                  to   |-> w.updates.status ] >>
        ELSE << >>)
       \o StatusChanges(ApplyWrite(ps, w), Tail(ws))

\* catch (err): err.message || fallback
ErrorText(message) == IF message = "" THEN MsgFallback ELSE message

\* Variant: the catch block also resets the project's frames.
CatchWriteClearsFrames(id, message) ==
  Write(id, [status |-> "error", error |-> ErrorText(message), frames |-> << >>])

\* The catch block of processProject.
CatchWrite(id, message) == Write(id, [status |-> "error", error |-> ErrorText(message)])

(* ---------------------------- processProject -------------------------- *)

\* Variant: a failed sampler run is recorded and the analysis is requested all
\* the same.
AfterExtractCallsAnyway(id, s, hasKey) ==
  IF s.settled = "rejected"
  THEN [ writes |-> << CatchWrite(id, s.reason) >>,
         pc |-> IF hasKey THEN "analyze" ELSE "returned",
         calls |-> IF hasKey THEN 1 ELSE 0 ]
  ELSE IF hasKey
  THEN [ writes |-> << Write(id, [frames |-> s.frames, status |-> "analyzing"]) >>,
         pc |-> "analyze", calls |-> 1 ]
  ELSE [ writes |-> << Write(id, [frames |-> s.frames, status |-> "analyzing"]),
                       CatchWrite(id, MsgNoApiKey) >>,
         pc |-> "returned", calls |-> 0 ]

\* processProject resumed after `await extractFramesFromVideo`, s being the
\* settled sampler run: the writes it makes up to its next await or its end,
\* where it then stands, and the external calls it has issued.
AfterExtract(id, s, hasKey) ==
  IF s.settled = "rejected"
  THEN [ writes |-> << CatchWrite(id, s.reason) >>, pc |-> "returned", calls |-> 0 ]
  ELSE IF hasKey
  THEN [ writes |-> << Write(id, [frames |-> s.frames, status |-> "analyzing"]) >>,
         pc |-> "analyze", calls |-> 1 ]
  ELSE [ writes |-> << Write(id, [frames |-> s.frames, status |-> "analyzing"]),
                       CatchWrite(id, MsgNoApiKey) >>,
         pc |-> "returned", calls |-> 0 ]

\* Variant: a failed analysis sends the project back to extracting.
AfterAnalyzeRetry(id, outcome) ==
  IF outcome.state = "fulfilled"
  THEN << Write(id, [result |-> outcome.value, status |-> "done"]) >>
  ELSE << Write(id, [status |-> "extracting", error |-> ErrorText(outcome.message)]) >>

\* processProject resumed after `await analyzeVideoFrames`.
AfterAnalyze(id, outcome) ==
  IF outcome.state = "fulfilled"
  THEN << Write(id, [result |-> outcome.value, status |-> "done"]) >>
  ELSE << CatchWrite(id, outcome.message) >>

\* Ids of the projects uploaded so far (crypto.randomUUID never repeats one).
Uploaded == DOMAIN task

\* handleFileChange: the new projects are appended, processProject is started
\* for each (status extracting, sampler created), and the runs whose canvas
\* gave no 2d context reject at once and are caught.
HandleFileChange(files, hasContext) ==
  LET n      == Len(files)
      base   == Len(task)
      news   == [i \in 1..n |-> NewProject(base + i, files[i])]
      starts == [i \in 1..n |-> StatusWrite(base + i, "extracting")]
      failed == SelectSeq([i \in 1..n |-> i], LAMBDA i : ~hasContext[i])
      caught == [k \in DOMAIN failed |->
                   CatchWrite(base + failed[k],
                              NewSampler(files[failed[k]].duration, TargetFrameCount, FALSE).reason)]
      writes == starts \o caught
  IN  /\ n >= 1
      /\ base + n <= MaxProjects
      /\ projects' = ApplyWrites(projects \o news, writes)
      /\ written' = StatusChanges(projects \o news, writes)
      /\ sampler' = sampler \o
           [i \in 1..n |-> NewSampler(files[i].duration, TargetFrameCount, hasContext[i])]
      /\ task' = task \o
           [i \in 1..n |-> [ pc     |-> IF hasContext[i] THEN "extract" ELSE "returned",
                             frames |-> << >>,
                             calls  |-> 0 ]]
      /\ UNCHANGED <<selectedProjectId, overlay, edits, apiKey, call>>

\* A sampler event handler ran and left the run as s2; when that settled the
\* promise a processProject awaits, processProject resumes in the same turn.
SamplerEvent(id, s2) ==
  /\ sampler' = [sampler EXCEPT ![id] = s2]
  /\ IF id \in DOMAIN task /\ task[id].pc = "extract" /\ s2.settled # "pending"
     THEN LET k == AfterExtract(id, s2, apiKey) IN
          /\ projects' = ApplyWrites(projects, k.writes)
          /\ written' = StatusChanges(projects, k.writes)
          /\ task' = [task EXCEPT ![id] =
                        [pc |-> k.pc, frames |-> s2.frames, calls |-> k.calls]]
     ELSE /\ written' = << >>
          /\ UNCHANGED <<projects, task>>
  /\ UNCHANGED <<selectedProjectId, overlay, edits, apiKey, call>>

LoadedMetadata(id) ==
  /\ sampler[id].phase = "loading"
  /\ SamplerEvent(id, OnLoadedMetadata(sampler[id]))

Seeked(id) ==
  /\ sampler[id].phase = "seeking"
  /\ SamplerEvent(id, CaptureFrame(sampler[id]))

BlobCallback(id, hasBlob) ==
  /\ sampler[id].phase = "encoding"
  /\ SamplerEvent(id, OnBlob(sampler[id], hasBlob))

VideoError(id) ==
  /\ sampler[id].phase \in {"loading", "seeking"}
  /\ SamplerEvent(id, OnVideoError(sampler[id]))

\* generateContent settles: the rest of analyzeVideoFrames runs, then
\* processProject resumes with its outcome.
ResponseArrives(id, response) ==
  /\ task[id].pc = "analyze"
  /\ LET writes == AfterAnalyze(id, Reconcile(task[id].frames, response)) IN
     /\ projects' = ApplyWrites(projects, writes)
     /\ written' = StatusChanges(projects, writes)
  /\ task' = [task EXCEPT ![id].pc = "returned"]
  /\ UNCHANGED <<selectedProjectId, overlay, sampler, edits, apiKey, call>>

(* ------------------------------ user actions --------------------------- *)

\* deleteProject
DeleteProject(id) ==
  /\ HasProject(projects, id)
  /\ projects' = RemoveProject(projects, id)
  /\ selectedProjectId' = IF selectedProjectId = id THEN NoSelection ELSE selectedProjectId
  /\ overlay' = IF selectedProjectId = id THEN NoOverlay ELSE overlay
  /\ written' = << >>
  /\ UNCHANGED <<task, sampler, edits, apiKey, call>>

\* ProjectCard.handleNameSubmit -> handleRenameProject
HandleRenameProject(id, newName) ==
  /\ HasProject(projects, id)
  /\ edits < MaxEdits
  /\ edits' = edits + 1
  /\ projects' = UpdateProject(projects, id, [customName |-> newName])
  /\ written' = << >>
  /\ UNCHANGED <<selectedProjectId, overlay, task, sampler, apiKey, call>>

\* A click on the card of a finished project: the overlay mounts on its
\* result (it covers the cards while it is open).
SelectProject(id) ==
  /\ selectedProjectId = NoSelection
  /\ HasProject(projects, id)
  /\ ProjectOf(projects, id).status = "done"
  /\ selectedProjectId' = id
  /\ overlay' = IF ProjectOf(projects, id).result # Null
                THEN [ mounted |-> TRUE, isEditing |-> FALSE,
                       editedResult |-> ProjectOf(projects, id).result ]
                ELSE NoOverlay
  /\ written' = << >>
  /\ UNCHANGED <<projects, task, sampler, edits, apiKey, call>>

\* onClose
CloseOverlay ==
  /\ selectedProjectId # NoSelection
  /\ selectedProjectId' = NoSelection
  /\ overlay' = NoOverlay
  /\ written' = << >>
  /\ UNCHANGED <<projects, task, sampler, edits, apiKey, call>>

\* setIsEditing(true)
StartEditing ==
  /\ overlay.mounted
  /\ ~overlay.isEditing
  /\ overlay' = [overlay EXCEPT !.isEditing = TRUE]
  /\ written' = << >>
  /\ UNCHANGED <<projects, selectedProjectId, task, sampler, edits, apiKey, call>>

\* The title and summary inputs: setEditedResult({...editedResult, [field]: value})
EditHeader(field, value) ==
  /\ overlay.mounted
  /\ overlay.isEditing
  /\ edits < MaxEdits
  /\ edits' = edits + 1
  /\ overlay' = [overlay EXCEPT !.editedResult = Merge(@, field :> value)]
  /\ written' = << >>
  /\ UNCHANGED <<projects, selectedProjectId, task, sampler, apiKey, call>>

\* TimelineItemView inputs: onUpdate({...item, [field]: value}) replaces the
\* item at its position in a copy of the timeline.
EditItem(index, field, value) ==
  /\ overlay.mounted
  /\ overlay.isEditing
  /\ index \in DOMAIN overlay.editedResult.timeline
  /\ edits < MaxEdits
  /\ edits' = edits + 1
  /\ LET newItem     == Merge(overlay.editedResult.timeline[index], field :> value)
         newTimeline == [overlay.editedResult.timeline EXCEPT ![index] = newItem]
     IN  overlay' = [overlay EXCEPT !.editedResult = Merge(@, [timeline |-> newTimeline])]
  /\ written' = << >>
  /\ UNCHANGED <<projects, selectedProjectId, task, sampler, apiKey, call>>

\* handleSave -> handleUpdateResult
HandleSave ==
  /\ overlay.mounted
  /\ overlay.isEditing
  /\ projects' = UpdateProject(projects, selectedProjectId, [result |-> overlay.editedResult])
  /\ overlay' = [overlay EXCEPT !.isEditing = FALSE]
  /\ written' = << >>
  /\ UNCHANGED <<selectedProjectId, task, sampler, edits, apiKey, call>>

(* ------------------------- the project collection ---------------------- *)

\* Uploaded files: a video of duration 0 and one long enough for the sampler
\* to capture more than one frame.
Files == [duration : {0, MaxDuration}]

Init ==
  /\ projects = << >>
  /\ selectedProjectId = NoSelection
  /\ overlay = NoOverlay
  /\ task = << >>
  /\ sampler = << >>
  /\ written = << >>
  /\ edits = 0
  /\ apiKey \in BOOLEAN
  /\ call = NoCall

Upload ==
  \E n \in 1..MaxProjects :
    \E files \in [1..n -> Files], hasContext \in [1..n -> BOOLEAN] :
      HandleFileChange(files, hasContext)

Pipeline ==
  \E id \in Uploaded :
    \/ LoadedMetadata(id)
    \/ Seeked(id)
    \/ \E hasBlob \in BOOLEAN : BlobCallback(id, hasBlob)
    \/ VideoError(id)
    \/ \E r \in ProjectResponses[Len(task[id].frames)] : ResponseArrives(id, r)

User ==
  \/ \E id \in Uploaded : DeleteProject(id)
  \/ \E id \in Uploaded : HandleRenameProject(id, EditedText)
  \/ \E id \in Uploaded : SelectProject(id)
  \/ CloseOverlay
  \/ StartEditing
  \/ \E field \in {"title", "summary"} : EditHeader(field, EditedText)
  \/ \E index \in 1..MaxTimeline :
       \/ EditItem(index, "location", EditedText)
       \/ EditItem(index, "content", EditedText)
       \/ EditItem(index, "foodItems", << EditedText >>)
  \/ HandleSave

Next == Upload \/ Pipeline \/ User

Spec == Init /\ [][Next]_vars

(* ----------------------- a sampler run on its own ----------------------- *)

\* One extractFramesFromVideo run with any target count and duration.
SamplerInit ==
  /\ \E target \in 0..MaxTarget :
       \E duration \in Durations(target, MaxSamplerDuration), hasContext \in BOOLEAN :
         sampler = << NewSampler(duration, target, hasContext) >>
  /\ projects = << >>
  /\ selectedProjectId = NoSelection
  /\ overlay = NoOverlay
  /\ task = << >>
  /\ written = << >>
  /\ edits = 0
  /\ apiKey = TRUE
  /\ call = NoCall

SamplerNext ==
  \E id \in DOMAIN sampler :
    \/ LoadedMetadata(id)
    \/ Seeked(id)
    \/ \E hasBlob \in BOOLEAN : BlobCallback(id, hasBlob)
    \/ VideoError(id)

SamplerSpec == SamplerInit /\ [][SamplerNext]_vars

\* The same run when the video decodes: 'error' never fires, every seek
\* completes ('seeked' follows each assignment of currentTime) and toBlob
\* always calls back.
SamplerRuns ==
  \E id \in DOMAIN sampler :
    \/ LoadedMetadata(id)
    \/ Seeked(id)
    \/ \E hasBlob \in BOOLEAN : BlobCallback(id, hasBlob)

SamplerFairSpec == SamplerInit /\ [][SamplerRuns]_vars /\ WF_vars(SamplerRuns)

(* ------------------- an analyzeVideoFrames call on its own ------------- *)

\* Frame sequences as the sampler produces them: n frames, `step` ticks apart.
FramesEvery(n, step) == [k \in 1..n |-> [timeOffset |-> (k - 1) * step]]

CallFrames == {FramesEvery(n, step) : n \in 0..MaxCallFrames, step \in 1..2}

\* Results that break the schema at the top level: no title, no timeline.
BrokenResults ==
  { [summary |-> "A day out", vibe |-> <<"#food">>, timeline |-> << FullItem(0) >>],
    [title |-> "Trip", summary |-> "A day out", vibe |-> <<"#food">>] }

CallResponses(n) ==
  Responses(CallItems(n), MaxCallTimeline)
  \cup {[kind |-> "responds", text |-> JsonText(v)] : v \in BrokenResults}

CallInit ==
  /\ \E frames \in CallFrames :
       \E response \in CallResponses(Len(frames)) :
         call = [ stage |-> "pending", frames |-> frames, response |-> response ]
  /\ apiKey \in BOOLEAN
  /\ projects = << >>
  /\ selectedProjectId = NoSelection
  /\ overlay = NoOverlay
  /\ task = << >>
  /\ sampler = << >>
  /\ written = << >>
  /\ edits = 0

\* The call settles.
CallSettles ==
  /\ call.stage = "pending"
  /\ call' = Merge(call, [ stage   |-> "settled",
                           outcome |-> AnalyzeVideoFrames(call.frames, apiKey, call.response) ])
  /\ UNCHANGED <<projects, selectedProjectId, overlay, task, sampler, written, edits, apiKey>>

\* The clamp-and-remap step (result.timeline.map) applied once more, to the
\* timeline the call returned and against the same frames.
CallReconcilesAgain ==
  /\ call.stage = "settled"
  /\ call.outcome.state = "fulfilled"
  /\ "again" \notin DOMAIN call
  /\ LET timeline == call.outcome.value.timeline IN
     call' = Merge(call,
               [ again |-> IF \E k \in DOMAIN timeline : ItemThrows(timeline[k], call.frames)
                           THEN Rejected(MsgNoFrame)
                           ELSE Fulfilled(ProcessTimeline(timeline, call.frames)) ])
  /\ UNCHANGED <<projects, selectedProjectId, overlay, task, sampler, written, edits, apiKey>>

CallNext == CallSettles \/ CallReconcilesAgain

CallSpec == CallInit /\ [][CallNext]_vars

(* =============================== claims ================================ *)

(* ---- C1 ---- *)

\* The raw result of a stand-alone call, when the call produced a parsable
\* result whose events all carry an index.
CallHasRawTimeline ==
  /\ apiKey
  /\ call.response.kind = "responds"
  /\ call.response.text.length # 0
  /\ call.response.text.parses
  /\ call.response.text.value # Null
  /\ "timeline" \in DOMAIN call.response.text.value
  /\ \A k \in DOMAIN call.response.text.value.timeline :
       "bestFrameIndex" \in DOMAIN call.response.text.value.timeline[k]

CallFulfilled == call.stage = "settled" /\ call.outcome.state = "fulfilled"

\* C1: whatever integer bestFrameIndex the model returned, the event that
\* analyzeVideoFrames returns has the nearest valid index (negative -> 0,
\* >= N -> N-1, in range unchanged) and the timeOffset of the frame at that
\* index; with at least one frame such a call does return its events.
C1_ClampedIndex ==
  call.stage = "settled" =>
    LET N == Len(call.frames) IN
    /\ (CallHasRawTimeline /\ N >= 1) => call.outcome.state = "fulfilled"
    /\ call.outcome.state = "fulfilled" =>
         /\ CallHasRawTimeline
         /\ DOMAIN call.outcome.value.timeline = DOMAIN call.response.text.value.timeline
         /\ \A k \in DOMAIN call.outcome.value.timeline :
              LET raw == call.response.text.value.timeline[k].bestFrameIndex
                  ev  == call.outcome.value.timeline[k]
              IN  /\ ev.bestFrameIndex \in 0..(N - 1)
                  /\ raw < 0 => ev.bestFrameIndex = 0
                  /\ raw >= N => ev.bestFrameIndex = N - 1
                  /\ raw \in 0..(N - 1) => ev.bestFrameIndex = raw
                  /\ ev.timeOffset = call.frames[ev.bestFrameIndex + 1].timeOffset

\* A call returned one event whose raw index was negative and one whose raw
\* index was past the last frame.
C1_Witness ==
  /\ CallFulfilled
  /\ Len(call.frames) >= 2
  /\ \E j, k \in DOMAIN call.outcome.value.timeline :
       /\ call.response.text.value.timeline[j].bestFrameIndex < 0
       /\ call.outcome.value.timeline[j].bestFrameIndex = 0
       /\ call.response.text.value.timeline[k].bestFrameIndex > Len(call.frames)
       /\ call.outcome.value.timeline[k].bestFrameIndex = Len(call.frames) - 1

(* ---- C2 ---- *)

\* Every event of `result` names a position of `frames`.
IndicesValid(result, frames) ==
  \A k \in DOMAIN result.timeline : HasFrame(frames, result.timeline[k].bestFrameIndex)

\* C2: in every state of the project collection every timeline event of a
\* project that holds a result, and every event the overlay presents, names a
\* valid position in that project's frame list.
C2_FrameReferencesValid ==
  /\ \A i \in DOMAIN projects :
       projects[i].result # Null => IndicesValid(projects[i].result, projects[i].frames)
  /\ overlay.mounted =>
       /\ HasProject(projects, selectedProjectId)
       /\ IndicesValid(overlay.editedResult, ProjectOf(projects, selectedProjectId).frames)

\* A project holds a result with a saved user edit on an event that refers to
\* its last frame.
C2_Witness ==
  \E i \in DOMAIN projects :
    /\ projects[i].result # Null
    /\ \E k \in DOMAIN projects[i].result.timeline :
         /\ projects[i].result.timeline[k].location = EditedText
         /\ projects[i].result.timeline[k].bestFrameIndex = Len(projects[i].frames) - 1
         /\ Len(projects[i].frames) >= 2

(* ---- C3 ---- *)

AllowedTransitions ==
  { <<"idle", "extracting">>, <<"extracting", "analyzing">>, <<"analyzing", "done">>,
    <<"extracting", "error">>, <<"analyzing", "error">> }

\* The writes of `log` that found project id.
WritesTo(log, id) == SelectSeq(log, LAMBDA e : e.id = id /\ e.from # "absent")

\* `chain` leads from status `from` to status `to`, each write starting where
\* the one before ended.
Linked(chain, from, to) ==
  IF chain = << >> THEN from = to
  ELSE /\ chain[1].from = from
       /\ chain[Len(chain)].to = to
       /\ \A j \in 1..(Len(chain) - 1) : chain[j].to = chain[j + 1].from

\* C3: every status write follows idle -> extracting -> analyzing -> done or
\* goes from extracting or analyzing to error, a project's status changes only
\* through such writes (a new project starting from idle), and so nothing
\* leaves done or error.
C3_StatusMachine ==
  [][ /\ \A k \in DOMAIN written' :
           written'[k].from # "absent" =>
             <<written'[k].from, written'[k].to>> \in AllowedTransitions
      /\ \A i \in DOMAIN projects' :
           LET id == projects'[i].id IN
           Linked(WritesTo(written', id),
                  IF HasProject(projects, id) THEN ProjectOf(projects, id).status ELSE "idle",
                  projects'[i].status)
    ]_vars

\* One project has just been written done while another stands in error.
C3_Witness ==
  /\ \E k \in DOMAIN written : written[k].from = "analyzing" /\ written[k].to = "done"
  /\ \E i \in DOMAIN projects : projects[i].status = "error"

(* ---- C4 ---- *)

\* C4: a frame sequence the sampler resolves with has at most targetFrameCount
\* frames, strictly increasing timeOffsets and a last timeOffset no later than
\* the video's duration.
C4_FrameSequence ==
  \A id \in DOMAIN sampler :
    sampler[id].settled = "resolved" =>
      LET fs == sampler[id].frames IN
      /\ Len(fs) <= sampler[id].targetFrameCount
      /\ \A j, k \in DOMAIN fs : j < k => fs[j].timeOffset < fs[k].timeOffset
      /\ fs # << >> => fs[Len(fs)].timeOffset <= sampler[id].duration

\* A run resolved with as many frames as the target asked for, the last seek
\* having been clamped to the duration.
C4_Witness ==
  \E id \in DOMAIN sampler :
    /\ sampler[id].settled = "resolved"
    /\ sampler[id].targetFrameCount >= 2
    /\ Len(sampler[id].frames) = sampler[id].targetFrameCount
    /\ sampler[id].currentTime = sampler[id].duration

(* ---- C5 ---- *)

EmptyResponse == [kind |-> "responds", text |-> NoText]

\* C5: when the external call returns no text for a project in analyzing, the
\* project goes to error with a non-empty message, its result stays null and
\* its frame list is left as it was.
C5_EmptyPayload ==
  [][ \A id \in DOMAIN task :
        (HasProject(projects, id) /\ ResponseArrives(id, EmptyResponse)) =>
          /\ ProjectOf(projects, id).status = "analyzing"
          /\ HasProject(projects', id)
          /\ ProjectOf(projects', id).status = "error"
          /\ "error" \in DOMAIN ProjectOf(projects', id)
          /\ ProjectOf(projects', id).error # ""
          /\ ProjectOf(projects', id).result = Null
          /\ ProjectOf(projects', id).frames = ProjectOf(projects, id).frames
    ]_vars

\* A project with captured frames stands in error for want of a payload.
C5_Witness ==
  \E i \in DOMAIN projects :
    /\ projects[i].status = "error"
    /\ projects[i].error = MsgNoResult
    /\ projects[i].result = Null
    /\ Len(projects[i].frames) >= 1

(* ---- C6 ---- *)

\* C6: a step in which one project's pipeline fails (a write of status error)
\* leaves the record of every other project exactly as it was, whatever else
\* is in flight.
C6_FailureIsolated ==
  [][ \A k \in DOMAIN written' :
        written'[k].to = "error" =>
          \A i \in DOMAIN projects :
            projects[i].id # written'[k].id =>
              /\ i \in DOMAIN projects'
              /\ projects'[i] = projects[i]
    ]_vars

\* One project has just failed at analysis while another, uploaded with it,
\* is done and holds its own result.
C6_Witness ==
  /\ \E k \in DOMAIN written : written[k].from = "analyzing" /\ written[k].to = "error"
  /\ \E i, j \in DOMAIN projects :
       /\ projects[i].status = "error"
       /\ projects[i].frames # << >>
       /\ projects[j].status = "done"
       /\ projects[j].result # Null
       /\ projects[j].result.timeline # << >>
       /\ IndicesValid(projects[j].result, projects[j].frames)

(* ---- C7 ---- *)

\* C7: once a project has been deleted its id never comes back into the
\* collection, and a step in which its pipeline writes (status, frames, result
\* or error) leaves the whole collection unchanged.
C7_WritesAfterDeleteIgnored ==
  [][ \A id \in DOMAIN task :
        ~HasProject(projects, id) =>
          /\ ~HasProject(projects', id)
          /\ (\E k \in DOMAIN written' : written'[k].id = id) => projects' = projects
    ]_vars

\* The pipeline of a deleted project has just run to its end, its writes
\* finding no project, while another project is in the collection.
C7_Witness ==
  /\ projects # << >>
  /\ \E k \in DOMAIN written :
       /\ written[k].from = "absent"
       /\ written[k].to = "done"
       /\ ~HasProject(projects, written[k].id)
       /\ task[written[k].id].pc = "returned"

(* ---- C8 ---- *)

\* C8: on every path on which sampling ends, by resolving or by rejecting, the
\* object URL created for the file has been revoked exactly once.
C8_ObjectUrlRevokedOnce ==
  \A id \in DOMAIN sampler :
    sampler[id].settled # "pending" =>
      sampler[id].created = 1 /\ sampler[id].revoked = 1

(* ---- C9 ---- *)

\* C9: for a video of duration 0 the sampler does not resolve, and the owning
\* project never enters analyzing (nor done).
C9_ZeroDurationRejected ==
  \A id \in DOMAIN sampler :
    sampler[id].duration = 0 =>
      /\ sampler[id].settled # "resolved"
      /\ HasProject(projects, id) => ProjectOf(projects, id).status \notin {"analyzing", "done"}

(* ---- C10 ---- *)

\* A project has a result exactly when it is done.
ResultIffDone(ps) ==
  \A i \in DOMAIN ps : (ps[i].result # Null) <=> (ps[i].status = "done")

\* The response carries a timeline of which some event cannot be reconciled
\* against the frames.
FailsOnSomeEvent(response, frames) ==
  /\ response.kind = "responds"
  /\ response.text.length # 0
  /\ response.text.parses
  /\ response.text.value # Null
  /\ "timeline" \in DOMAIN response.text.value
  /\ \E k \in DOMAIN response.text.value.timeline :
       ItemThrows(response.text.value.timeline[k], frames)

\* The responses of the project collection of which some event fails, by the
\* number of frames sent.
FailingResponses ==
  [n \in 0..TargetFrameCount |->
     {r \in ProjectResponses[n] : FailsOnSomeEvent(r, [k \in 1..n |-> [timeOffset |-> k]])}]

\* C10: a project's result is non-null exactly when its status is done (so a
\* project in error has none), and a response of which any one event fails
\* reconciliation leaves the project in error with no result at all.
C10_NoPartialSuccess ==
  [][ /\ ResultIffDone(projects')
      /\ \A id \in DOMAIN task :
           (HasProject(projects, id) /\ task[id].pc = "analyze" /\ task'[id].pc = "returned") =>
             \/ /\ ProjectOf(projects', id).status = "error"
                /\ ProjectOf(projects', id).result = Null
             \/ \A r \in FailingResponses[Len(task[id].frames)] :
                  ~(FailsOnSomeEvent(r, task[id].frames) /\ ResponseArrives(id, r))
    ]_vars

\* A project with captured frames is in error, with no result, because one
\* event of the response could not be reconciled.
C10_Witness ==
  \E i \in DOMAIN projects :
    /\ projects[i].status = "error"
    /\ projects[i].error = MsgNoFrame
    /\ projects[i].frames # << >>
    /\ projects[i].result = Null

(* ---- C11 ---- *)

\* The top-level fields the response schema requires.
RequiredFields == {"title", "timeline", "summary", "vibe"}

\* The response is no JSON text, or the JSON text of a value that lacks a
\* required top-level field.
Malformed(response) ==
  /\ response.kind = "responds"
  /\ response.text.length # 0
  /\ \/ ~response.text.parses
     \/ response.text.value = Null
     \/ ~(RequiredFields \subseteq DOMAIN response.text.value)

\* C11: a call whose payload cannot be parsed, or lacks one of title, summary,
\* vibe and timeline, is rejected, and processProject answers its outcome with
\* the error write alone (no result is published).
C11_MalformedRejected ==
  (call.stage = "settled" /\ apiKey /\ Malformed(call.response)) =>
    /\ call.outcome.state = "rejected"
    /\ \A id \in 1..MaxProjects :
         AfterAnalyze(id, call.outcome) = << CatchWrite(id, call.outcome.message) >>

(* ---- C12 ---- *)

\* C12: the clamp-and-remap step applied to its own output, against the same
\* frames, returns a timeline equal to that output: same indices, same
\* timeOffsets, same other fields.
C12_ReconcileIdempotent ==
  (call.stage = "settled" /\ "again" \in DOMAIN call) =>
    /\ call.again.state = "fulfilled"
    /\ call.again.value = call.outcome.value.timeline

\* The step has been applied again to a two-event timeline over at least two
\* frames, one of whose raw indices was out of range and one of whose events
\* came without the optional fields.
C12_Witness ==
  /\ call.stage = "settled"
  /\ "again" \in DOMAIN call
  /\ Len(call.frames) >= 2
  /\ Len(call.again.value) = 2
  /\ \E j, k \in DOMAIN call.again.value :
       /\ call.response.text.value.timeline[j].bestFrameIndex > Len(call.frames)
       /\ call.again.value[j].bestFrameIndex = Len(call.frames) - 1
       /\ "location" \notin DOMAIN call.response.text.value.timeline[k]

(* ---- C13 ---- *)

\* C13: the timeline a call returns has as many events as the raw timeline,
\* its k-th event comes from the raw k-th event (its index is that event's
\* index clamped), and every field of the raw event other than bestFrameIndex
\* and timeOffset (timestamp, content and highlightType among them) is carried
\* over unchanged, also when the raw events are out of chronological order.
C13_OrderAndFieldsKept ==
  CallFulfilled =>
    LET raw == call.response.text.value.timeline
        out == call.outcome.value.timeline
    IN  /\ Len(out) = Len(raw)
        /\ \A k \in DOMAIN raw :
             /\ out[k].bestFrameIndex = SafeIndex(raw[k].bestFrameIndex, call.frames)
             /\ out[k].timestamp = raw[k].timestamp
             /\ out[k].content = raw[k].content
             /\ out[k].highlightType = raw[k].highlightType
             /\ \A f \in (DOMAIN raw[k]) \ {"bestFrameIndex", "timeOffset"} :
                  out[k][f] = raw[k][f]

\* A call returned two different events of which the first refers to a later
\* frame than the second.
C13_Witness ==
  /\ CallFulfilled
  /\ Len(call.outcome.value.timeline) = 2
  /\ call.outcome.value.timeline[1].timeOffset > call.outcome.value.timeline[2].timeOffset
  /\ call.outcome.value.timeline[1].timestamp # call.outcome.value.timeline[2].timestamp

(* ---- C14 ---- *)

\* The moves of one processProject activation from await to await.
StageOrder ==
  { <<"extract", "analyze">>, <<"extract", "returned">>, <<"analyze", "returned">> }

\* C14: for each project the sampler is started once (with the activation)
\* and never runs again once it has settled; the external call is issued at
\* most once, and only on leaving the sampler stage with a resolved run;
\* reconciliation belongs to the one step that ends the analysis stage, and a
\* call that itself failed yields that failure alone; an activation that has
\* returned, after a failure or after success, does nothing more.
C14_StagesOnceInOrder ==
  [][ \A id \in DOMAIN task' :
        IF id \notin DOMAIN task
        THEN /\ task'[id].calls = 0
             /\ sampler'[id].created = 1
             /\ task'[id].pc \in {"extract", "returned"}
             /\ task'[id].pc = "returned" => sampler'[id].settled = "rejected"
        ELSE /\ task'[id].pc # task[id].pc => <<task[id].pc, task'[id].pc>> \in StageOrder
             /\ task'[id].calls \in {task[id].calls, 1}
             /\ task'[id].calls # task[id].calls =>
                  /\ task[id].pc = "extract"
                  /\ task'[id].pc = "analyze"
                  /\ sampler'[id].settled = "resolved"
             /\ task'[id].pc = "analyze" =>
                  /\ task'[id].calls = 1
                  /\ sampler'[id].settled = "resolved"
             /\ (task[id].pc = "analyze" /\ task'[id].pc = "returned") =>
                  /\ task[id].calls = 1
                  /\ \A m \in {"", "network error"} :
                       (ResponseArrives(id, [kind |-> "rejects", message |-> m])
                          /\ HasProject(projects, id)) =>
                         /\ ProjectOf(projects', id).status = "error"
                         /\ ProjectOf(projects', id).error = ErrorText(m)
                         /\ ProjectOf(projects', id).result = Null
             /\ sampler[id].settled # "pending" => sampler'[id] = sampler[id]
             /\ task[id].pc = "returned" => task'[id] = task[id]
             /\ (task[id].pc = "extract" /\ task'[id].pc = "returned") =>
                  task'[id].calls = 0
    ]_vars

\* One project has run through all three stages and is done, while another,
\* whose sampler run failed, has returned without a call having been issued.
C14_Witness ==
  \E i, j \in DOMAIN task :
    /\ task[i].pc = "returned" /\ task[i].calls = 1
    /\ sampler[i].settled = "resolved"
    /\ HasProject(projects, i) /\ ProjectOf(projects, i).status = "done"
    /\ ProjectOf(projects, i).frames # << >>
    /\ task[j].pc = "returned" /\ task[j].calls = 0
    /\ sampler[j].settled = "rejected"
    /\ HasProject(projects, j) /\ ProjectOf(projects, j).status = "error"

(* ---- C15 ---- *)

\* max(0.5, duration / targetCount), in ticks of the run.
MaxHalfSecondOrShare(duration, target) ==
  IF duration \div target >= TicksPerHalfSecond(target)
  THEN duration \div target ELSE TicksPerHalfSecond(target)

\* The number of k >= 0 with k * interval < duration.
SlotsBefore(duration, interval) ==
  Cardinality({k \in 0..duration : k * interval < duration})

\* The run on a 12 s video with targetCount 120, every encode succeeding; a
\* tick of that run is 1/240 s.
TwelveSecondRun == RunToEnd(NewSampler(12 * 2 * 120, 120, TRUE))

\* C15: once the metadata has loaded the interval is max(0.5, duration /
\* targetCount); while every encode succeeds the k-th frame (0-based) is at
\* k * interval; and a run that resolves without a failed encode has captured
\* min(targetCount, number of k with k * interval < duration) frames.  For 12 s
\* and targetCount 120 the interval is half a second, no more than 24 frames
\* are captured and the last is no later than 12 s.
C15_FrameTimes ==
  /\ \A id \in DOMAIN sampler :
       LET s == sampler[id] IN
       (s.targetFrameCount >= 1 /\ s.phase \in {"seeking", "encoding", "idle"}) =>
         /\ s.interval = MaxHalfSecondOrShare(s.duration, s.targetFrameCount)
         /\ ~s.encodeFailed =>
              /\ \A k \in DOMAIN s.frames : s.frames[k].timeOffset = (k - 1) * s.interval
              /\ s.settled = "resolved" =>
                   Len(s.frames) = Min(s.targetFrameCount, SlotsBefore(s.duration, s.interval))
  /\ \A id \in DOMAIN sampler :
       (sampler[id].targetFrameCount = 0 /\ sampler[id].settled = "resolved") =>
         sampler[id].frames = << >>
  /\ TwelveSecondRun.settled = "resolved"
  /\ TwelveSecondRun.interval = TicksPerHalfSecond(120)
  /\ Len(TwelveSecondRun.frames) <= 24
  /\ TwelveSecondRun.frames[Len(TwelveSecondRun.frames)].timeOffset <= 12 * 2 * 120

\* A run resolved, no encode having failed, with fewer frames than the target
\* because the video ended first, and with more than one frame.
C15_Witness ==
  \E id \in DOMAIN sampler :
    /\ sampler[id].settled = "resolved"
    /\ ~sampler[id].encodeFailed
    /\ Len(sampler[id].frames) >= 2
    /\ Len(sampler[id].frames) < sampler[id].targetFrameCount
    /\ sampler[id].frames[2].timeOffset = sampler[id].interval

(* ---- C16 ---- *)

\* C16: when the seek after a capture would land beyond the duration while
\* fewer than targetFrameCount frames have been captured, the position sought
\* is below the duration, so that the seek's completion captures a frame there
\* instead of ending the run.
C16_LastSeekClampedAndCaptured ==
  [][ \A id \in DOMAIN sampler :
        LET s == sampler[id]
            t == sampler'[id]
        IN  (s.phase = "encoding" /\ t.phase = "seeking"
               /\ AddTime(s.currentTime, s.interval) > s.duration
               /\ Len(t.frames) < t.targetFrameCount) =>
              /\ t.currentTime < t.duration
              /\ ~CaptureDone(t)
    ]_vars

(* ---- C17 ---- *)

\* C17: no external call is ever issued for a project whose captured frame
\* sequence is empty; such a project is in error (if it still exists) with no
\* request sent.
C17_NoCallForEmptyFrames ==
  \A id \in DOMAIN task :
    (task[id].pc # "extract" /\ task[id].frames = << >>) =>
      /\ task[id].calls = 0
      /\ task[id].pc = "returned"
      /\ HasProject(projects, id) => ProjectOf(projects, id).status = "error"

(* ---- C18 ---- *)

\* C18: every event a call returns carries location and foodItems: the raw
\* event's values where it had them, the empty text and the empty list where
\* it did not.
C18_OptionalFieldsDefaulted ==
  CallFulfilled =>
    LET raw == call.response.text.value.timeline
        out == call.outcome.value.timeline
    IN  \A k \in DOMAIN out :
          /\ "location" \in DOMAIN out[k]
          /\ "foodItems" \in DOMAIN out[k]
          /\ out[k].location =
               IF "location" \in DOMAIN raw[k] THEN raw[k].location ELSE ""
          /\ out[k].foodItems =
               IF "foodItems" \in DOMAIN raw[k] THEN raw[k].foodItems ELSE << >>

(* ---- C19 ---- *)

SamplerPending == \A id \in DOMAIN sampler : sampler[id].settled = "pending"

SamplerResolved == \A id \in DOMAIN sampler : sampler[id].settled = "resolved"

\* C19: when every seek completes, every toBlob callback fires and the video
\* raises no error, a run that has started resolves in the end, for every
\* targetFrameCount >= 0 and duration >= 0; it never holds more than
\* targetFrameCount frames; a completed seek ends the run exactly when
\* currentTime >= duration or the frame count has reached targetFrameCount
\* (and goes on to capture otherwise), so the run stops at the first such
\* completion; and nothing happens in a run that has resolved.
C19_SamplingTerminates ==
  /\ SamplerPending ~> SamplerResolved
  /\ [](\A id \in DOMAIN sampler : Len(sampler[id].frames) <= sampler[id].targetFrameCount)
  /\ [][ \A id \in DOMAIN sampler :
           LET s == sampler[id]
               t == sampler'[id]
           IN  /\ (s.phase = "seeking" /\ t # s) =>
                    IF s.currentTime >= s.duration \/ Len(s.frames) >= s.targetFrameCount
                    THEN t.settled = "resolved" /\ t.phase = "idle" /\ t.frames = s.frames
                    ELSE t.settled = "pending" /\ t.phase = "encoding"
               /\ t.settled = "resolved" => s.phase \in {"seeking", "idle"}
               /\ s.settled = "resolved" => t = s
       ]_vars

\* A run resolved at the end of the video, short of its target because an
\* encode had failed on the way, with more than one frame.
C19_Witness ==
  \E id \in DOMAIN sampler :
    /\ sampler[id].settled = "resolved"
    /\ sampler[id].phase = "idle"
    /\ sampler[id].encodeFailed
    /\ sampler[id].currentTime >= sampler[id].duration
    /\ Len(sampler[id].frames) >= 2
    /\ Len(sampler[id].frames) < sampler[id].targetFrameCount

====
